---- MODULE Spec2Model ----
(***************************************************************************)
(* Release generation orchestrator (backend/core/release_controller.py,   *)
(* and its export-less duplicate backend/release.py) as a state machine.   *)
(*                                                                         *)
(* One generate_release invocation is a "run"; run k obtains release id k  *)
(* (Spec follows one invocation from the call to its return or raise)      *)
(* from uuid4 (fresh, never repeated).  The position of each run in the    *)
(* body of generate_release is run[k].pc.  The persistence store is the    *)
(* pair (releases, transformations) of committed rows plus the writes the  *)
(* shared session still holds (dirty).  Percentages are                    *)
(* kept as exact fractions <<n, d>> standing for (n / d) * 100, so float   *)
(* rounding is not modelled.                                               *)
(***************************************************************************)
EXTENDS Integers, Sequences, FiniteSets, TLC

VARIABLES
    run,               \* per invocation: position and locals of generate_release
    release_progress,  \* ReleaseController.release_progress : release id -> ReleaseProgress
    releases,          \* committed Release rows : release id -> row
    transformations,   \* committed ImageTransformation rows : id -> row
    dirty,             \* attribute writes on Release objects the session holds, not yet committed
    fs,                \* the directories that exist on the filesystem
    direct             \* calls of the progress tracker from other threads: the
                       \* update in flight and what the last read returned

vars == <<run, release_progress, releases, transformations, dirty, fs, direct>>

----------------------------------------------------------------------------
(* Bounds of the model *)

MaxImages == 2
MaxVariants == 1

\* the invocations of generate_release: a first and a second one
Runs == {1, 2}
\* release ids: uuid4 of run k is k
Rids == Runs
\* Python None for a release id
NoId == 0
\* SQL NULL of an integer column
NULL == 0 - 1
\* Python None of an optional string / datetime
None == <<>>

----------------------------------------------------------------------------
(* Percentages as exact fractions *)

RECURSIVE GCD(_, _)
GCD(a, b) == IF b = 0 THEN a ELSE GCD(b, a % b)

\* 0.0 and 100.0
Pct0 == <<0, 1>>
Pct100 == <<1, 1>>

\* Percent counting the images still to do
Percent_Remaining(processed, total) ==
    IF processed >= total THEN Pct0
    ELSE LET g == GCD(total - processed, total)
         IN  <<(total - processed) \div g, total \div g>>

\* (processed / total) * 100, for total > 0
Percent(processed, total) ==
    IF processed = 0 THEN Pct0
    ELSE LET g == GCD(processed, total) IN <<processed \div g, total \div g>>

PctLeq(a, b) == a[1] * b[2] <= b[1] * a[2]

----------------------------------------------------------------------------
(* Progress tracker *)

ProgressFields ==
    {"release_id", "status", "progress_percentage", "current_step", "total_images",
     "processed_images", "generated_images", "error_message", "started_at", "completed_at"}

NewProgress(release_id) ==
    [release_id |-> release_id, status |-> "pending", progress_percentage |-> Pct0,
     current_step |-> "initializing", total_images |-> 0, processed_images |-> 0,
     generated_images |-> 0, error_message |-> None, started_at |-> None,
     completed_at |-> None]

\* SetFields starting the processed count anew when it is not supplied
SetFields_Clearing(progress, kwargs) ==
    [f \in ProgressFields |->
        IF f \in DOMAIN kwargs THEN kwargs[f]
        ELSE IF f = "processed_images" THEN 0 ELSE progress[f]]

\* the loop "for key, value in kwargs.items(): if hasattr(progress, key): setattr(...)"
SetFields(progress, kwargs) ==
    [f \in ProgressFields |-> IF f \in DOMAIN kwargs THEN kwargs[f] ELSE progress[f]]

\* "if progress.total_images > 0: progress.progress_percentage = ..."
Recompute(progress) ==
    IF progress.total_images > 0
    THEN [progress EXCEPT !.progress_percentage =
              Percent(progress.processed_images, progress.total_images)]
    ELSE progress

\* update_release_progress(release_id, **kwargs): the progress map after the call
update_release_progress(map, release_id, kwargs) ==
    LET progress == IF release_id \in DOMAIN map THEN map[release_id]
                    ELSE NewProgress(release_id)
        updated == Recompute(SetFields(progress, kwargs))
    IN  [r \in DOMAIN map \cup {release_id} |-> IF r = release_id THEN updated ELSE map[r]]

\* get_release_progress(release_id): the entry, or None
get_release_progress(map, release_id) ==
    IF release_id \in DOMAIN map THEN map[release_id] ELSE None

----------------------------------------------------------------------------
(* Persistence store: the tables and the session *)

Versions == {"v1", "v2"}
TransIds == {"t1", "t2", "t3", "t4"}

\* The ImageTransformation table before the first run: two eligible records of
\* v1 stored out of order, a disabled one, and one of v2 already applied.
InitialCatalog ==
    [t \in TransIds |->
        CASE t = "t1" -> [release_version |-> "v1", status |-> "PENDING",
                          is_enabled |-> TRUE, order_index |-> 2, release_id |-> NoId]
          [] t = "t2" -> [release_version |-> "v1", status |-> "PENDING",
                          is_enabled |-> TRUE, order_index |-> 1, release_id |-> NoId]
          [] t = "t3" -> [release_version |-> "v1", status |-> "PENDING",
                          is_enabled |-> FALSE, order_index |-> 0, release_id |-> NoId]
          [] OTHER    -> [release_version |-> "v2", status |-> "COMPLETED",
                          is_enabled |-> TRUE, order_index |-> 0, release_id |-> NoId]]

\* ".order_by(ImageTransformation.order_index)": ids of S by ascending order_index
RECURSIVE OrderByIndex(_, _)
OrderByIndex(table, S) ==
    IF S = {} THEN <<>>
    ELSE LET first == CHOOSE t \in S : \A u \in S : table[t].order_index <= table[u].order_index
         IN  <<first>> \o OrderByIndex(table, S \ {first})

\* the query without its filter on the status
PendingQuery_AnyStatus(table, release_version) ==
    OrderByIndex(table, {t \in TransIds : /\ table[t].release_version = release_version
                                          /\ table[t].is_enabled})

\* the query of load_pending_transformations
PendingQuery(table, release_version) ==
    OrderByIndex(table, {t \in TransIds : /\ table[t].release_version = release_version
                                          /\ table[t].status = "PENDING"
                                          /\ table[t].is_enabled})

\* The Image table: image i belongs to dataset ds1 (odd i) or ds2 (even i); the
\* last image is one of a derived split, which the query leaves out.
Datasets == {"ds1", "ds2"}
ImageIds == 1..(MaxImages + 1)
ImageTable ==
    [i \in ImageIds |->
        [dataset_id |-> IF i % 2 = 1 THEN "ds1" ELSE "ds2",
         split_type |-> IF i = MaxImages + 1 THEN "train" ELSE "dataset",
         split_section |-> IF i % 2 = 1 THEN None ELSE <<"val">>]]

RECURSIVE SeqOfSet(_)
SeqOfSet(S) ==
    IF S = {} THEN <<>>
    ELSE LET m == CHOOSE x \in S : \A y \in S : x <= y IN <<m>> \o SeqOfSet(S \ {m})

\* the query of get_dataset_images, rows in primary-key order
ImageQuery(dataset_ids) ==
    SeqOfSet({i \in ImageIds : /\ ImageTable[i].dataset_id \in dataset_ids
                               /\ ImageTable[i].split_type = "dataset"})

\* "split_section": image.split_section or "train"
SplitSection(i) ==
    IF ImageTable[i].split_section = None THEN "train" ELSE ImageTable[i].split_section[1]

\* session.commit() that succeeds: every held write reaches its row
ApplyWrites(table, held) ==
    [r \in DOMAIN table |->
        IF r \in DOMAIN held
        THEN [f \in DOMAIN table[r] |->
                 IF f \in DOMAIN held[r] THEN held[r][f] ELSE table[r][f]]
        ELSE table[r]]

\* setting attributes of a mapped object: the writes are held by the session
HoldWrites(held, id, writes) ==
    [r \in DOMAIN held \cup {id} |->
        IF r = id
        THEN [f \in DOMAIN writes \cup (IF id \in DOMAIN held THEN DOMAIN held[id] ELSE {}) |->
                 IF f \in DOMAIN writes THEN writes[f] ELSE held[id][f]]
        ELSE held[r]]

NoWrites == [r \in {} |-> <<>>]

----------------------------------------------------------------------------
(* ReleaseConfig and the generation results *)

ExportFormatChoices == {"auto", "coco", "yolo"}
TaskTypes == {"object_detection", "segmentation"}

DatasetChoices == {{}, {"ds1"}, Datasets}

Configs ==
    [dataset_ids : DatasetChoices, export_format : ExportFormatChoices,
     task_type : TaskTypes, include_original : BOOLEAN]

\* annotations of a variant: keys are the keys the dict has
BboxAnn ==
    [type |-> "bbox", class_name |-> "cat", class_id |-> 3,
     keys |-> {"type", "class_name", "class_id", "bbox"}]
PolygonAnn ==
    [type |-> "polygon", class_name |-> "dog", class_id |-> 1,
     keys |-> {"type", "class_name", "class_id", "points"}]
\* the class of BboxAnn under another executor-local id
BboxAnnLocal ==
    [type |-> "bbox", class_name |-> "cat", class_id |-> 0,
     keys |-> {"type", "class_name", "class_id", "bbox"}]
\* an annotation without a class name
NamelessAnn ==
    [type |-> "bbox", class_name |-> "", class_id |-> 2,
     keys |-> {"type", "class_id", "bbox"}]

\* what the executor may give for one variant
VariantMenu ==
    {[annotations |-> <<>>], [annotations |-> <<BboxAnn>>], [annotations |-> <<PolygonAnn>>],
     [annotations |-> <<BboxAnn, PolygonAnn>>]}

\* more of them: one class under two local ids, a missing class name
RichVariantMenu ==
    VariantMenu \cup
    {[annotations |-> <<PolygonAnn, BboxAnn, BboxAnnLocal>>],
     [annotations |-> <<NamelessAnn, BboxAnn>>], [annotations |-> <<NamelessAnn>>],
     [annotations |-> <<BboxAnnLocal>>]}

\* all_results: the sources in call order, each with up to MaxVariants variants;
\* the variants of one result all carry the same annotations
ResultsFrom(image_paths, variant_menu) ==
    {[i \in 1..Len(image_paths) |->
         [source |-> image_paths[i], variants |-> [j \in 1..n[i] |-> v]]] :
        n \in [1..Len(image_paths) -> 0..MaxVariants], v \in variant_menu}

ResultsFor(image_paths) == ResultsFrom(image_paths, VariantMenu)

RECURSIVE SumLen(_)
\* sum(len(results) for results in all_results.values())
SumLen(all_results) ==
    IF all_results = <<>> THEN 0
    ELSE Len(Head(all_results).variants) + SumLen(Tail(all_results))

----------------------------------------------------------------------------
(* Paths *)

\* output_dir = f"backend/releases/{release_id}"
OutputDir(release_id) ==
    [base |-> "backend/releases", name |-> "{release_id}", id |-> release_id, sub |-> ""]

\* os.path.join("releases", f"release_{release_id}", "export")
FinalExportDir(release_id) ==
    [base |-> "releases", name |-> "release_{release_id}", id |-> release_id, sub |-> "export"]

\* tempfile.mkdtemp(prefix=f"release_{release_id}_")
TempDir(release_id) ==
    [base |-> "tmp", name |-> "release_{release_id}_", id |-> release_id, sub |-> ""]

\* shutil.rmtree(d): d and everything below it
RmTree(dirs, d) ==
    {x \in dirs : ~(x.base = d.base /\ x.name = d.name /\ x.id = d.id
                    /\ (d.sub = "" \/ x.sub = d.sub))}

----------------------------------------------------------------------------
(* Path resolver: _resolve_image_path *)

\* img_record["file_path"] of image i: relative for odd i, absolute for even i
StoredPath(i) == [abs |-> (i % 2 = 0), base |-> "", name |-> i]

\* base_paths
base_paths == <<".", "projects", "uploads">>

\* os.path.join(base_path, relative_path)
Join(base_path, relative_path) == [relative_path EXCEPT !.base = base_path]

\* os.path.exists(path) with the set files existing: a relative path is looked
\* up from the current directory
Exists(path, files) ==
    IF ~path.abs /\ path.base = "" THEN Join(".", path) \in files ELSE path \in files

\* the resolver returning the last base under which the path exists
resolve_image_path_LastBase(relative_path, files) ==
    IF relative_path.abs THEN relative_path
    ELSE LET hits == {b \in 1..Len(base_paths) : Exists(Join(base_paths[b], relative_path), files)}
         IN  IF hits = {} THEN relative_path
             ELSE Join(base_paths[CHOOSE b \in hits : \A c \in hits : c <= b], relative_path)

\* _resolve_image_path(relative_path)
resolve_image_path(relative_path, files) ==
    IF relative_path.abs THEN relative_path
    ELSE LET hits == {b \in 1..Len(base_paths) : Exists(Join(base_paths[b], relative_path), files)}
         IN  IF hits = {} THEN relative_path
             ELSE Join(base_paths[CHOOSE b \in hits : \A c \in hits : b <= c], relative_path)

\* the files that may exist for the stored paths of some images
FileMenu(images) ==
    UNION {IF StoredPath(i).abs THEN {StoredPath(i)}
           ELSE {Join(base_paths[b], StoredPath(i)) : b \in 1..Len(base_paths)} : i \in images}

----------------------------------------------------------------------------
(* Export format selector *)

IsPolygon(ann) == ann.type = "polygon" /\ "points" \in ann.keys
IsBbox(ann) == ~IsPolygon(ann) /\ (ann.type = "bbox" \/ "bbox" \in ann.keys)

Range(seq) == {seq[i] : i \in 1..Len(seq)}

AnnotationsOf(generation_results) ==
    UNION { UNION { Range(generation_results[i].variants[j].annotations) :
                      j \in 1..Len(generation_results[i].variants) } :
              i \in 1..Len(generation_results) }

\* the selector with bounding boxes deciding before polygons
select_optimal_export_format_BboxFirst(generation_results, user_format, task_type) ==
    LET has_polygons == \E ann \in AnnotationsOf(generation_results) : IsPolygon(ann)
        has_bboxes == \E ann \in AnnotationsOf(generation_results) : IsBbox(ann)
    IN  IF user_format # "" /\ user_format # "auto" THEN user_format
        ELSE IF task_type = "segmentation"
             THEN (IF has_polygons THEN "yolo_segmentation" ELSE "coco")
        ELSE IF task_type = "object_detection"
             THEN (IF has_bboxes THEN "yolo_detection"
                   ELSE IF has_polygons THEN "coco"
                   ELSE "yolo_detection")
        ELSE "coco"

\* the selector honouring only the tags an encoder exists for
select_optimal_export_format_Known(generation_results, user_format, task_type) ==
    LET has_polygons == \E ann \in AnnotationsOf(generation_results) : IsPolygon(ann)
        has_bboxes == \E ann \in AnnotationsOf(generation_results) : IsBbox(ann)
    IN  IF user_format \in {"yolo_detection", "yolo_segmentation", "coco", "pascal_voc", "csv"}
        THEN user_format
        ELSE IF task_type = "segmentation"
             THEN (IF has_polygons THEN "yolo_segmentation" ELSE "coco")
        ELSE IF task_type = "object_detection"
             THEN (IF has_bboxes /\ ~has_polygons THEN "yolo_detection"
                   ELSE IF has_polygons THEN "coco"
                   ELSE "yolo_detection")
        ELSE "coco"

\* user_format is "" for a falsy value
select_optimal_export_format(generation_results, user_format, task_type) ==
    LET has_polygons == \E ann \in AnnotationsOf(generation_results) : IsPolygon(ann)
        has_bboxes == \E ann \in AnnotationsOf(generation_results) : IsBbox(ann)
    IN  IF user_format # "" /\ user_format # "auto" THEN user_format
        ELSE IF task_type = "segmentation"
             THEN (IF has_polygons THEN "yolo_segmentation" ELSE "coco")
        ELSE IF task_type = "object_detection"
             THEN (IF has_bboxes /\ ~has_polygons THEN "yolo_detection"
                   ELSE IF has_polygons THEN "coco"
                   ELSE "yolo_detection")
        ELSE "coco"

----------------------------------------------------------------------------
(* Annotation aggregator: _prepare_export_data *)

\* ann.get('class_name', 'unknown')
ClassNameOf(ann) == IF "class_name" \in ann.keys THEN ann.class_name ELSE "unknown"

RECURSIVE Flatten(_)
\* the variants of all sources, in iteration order
Flatten(generation_results) ==
    IF generation_results = <<>> THEN <<>>
    ELSE Head(generation_results).variants \o Flatten(Tail(generation_results))

\* the entry made for one annotation, its geometry named by the key copied
AnnotationEntry(ann, annotation_id, image_id) ==
    [id |-> annotation_id, image_id |-> image_id,
     class_id |-> IF "class_id" \in ann.keys THEN ann.class_id ELSE 0,
     class_name |-> ClassNameOf(ann),
     type |-> IF "type" \in ann.keys THEN ann.type ELSE "bbox",
     geometry |-> IF IsPolygon(ann) THEN "points"
                  ELSE IF "bbox" \in ann.keys THEN "bbox" ELSE ""]

RECURSIVE CollectAnnotations_FirstImage(_, _, _)
\* the entries of the variants, every one referring to the image id given
CollectAnnotations_FirstImage(variants, image_id, annotation_id) ==
    IF variants = <<>> THEN <<>>
    ELSE LET anns == Head(variants).annotations
         IN  [a \in 1..Len(anns) |-> AnnotationEntry(anns[a], annotation_id + a - 1, image_id)]
             \o CollectAnnotations_FirstImage(Tail(variants), image_id, annotation_id + Len(anns))

RECURSIVE CollectAnnotations(_, _, _)
\* the entries of the variants from image id image_id and annotation id annotation_id on
CollectAnnotations(variants, image_id, annotation_id) ==
    IF variants = <<>> THEN <<>>
    ELSE LET anns == Head(variants).annotations
         IN  [a \in 1..Len(anns) |-> AnnotationEntry(anns[a], annotation_id + a - 1, image_id)]
             \o CollectAnnotations(Tail(variants), image_id + 1, annotation_id + Len(anns))

\* the class names of the model in lexicographic order
NameOrder == <<"cat", "dog", "unknown">>

\* sorted(classes_set)
SortedNames(classes_set) == SelectSeq(NameOrder, LAMBDA n : n \in classes_set)

\* the classes list: id i for the i-th name
UnifiedClasses(classes_set) ==
    LET names == SortedNames(classes_set)
    IN  [i \in 1..Len(names) |-> [id |-> i - 1, name |-> names[i], supercategory |-> "object"]]

\* class_name_to_id.get(class_name, 0)
ClassNameToId(classes, class_name) ==
    IF \E i \in 1..Len(classes) : classes[i].name = class_name
    THEN classes[CHOOSE i \in 1..Len(classes) : classes[i].name = class_name].id
    ELSE 0

\* the annotations with their executor-local class ids kept
UnifyClassIds_Skipped(annotations, classes) == annotations

\* the loop that rewrites the class id of every entry
UnifyClassIds(annotations, classes) ==
    [a \in 1..Len(annotations) |->
        [annotations[a] EXCEPT !.class_id = ClassNameToId(classes, annotations[a].class_name)]]

\* _prepare_export_data(generation_results, task_type); of an image entry the
\* id is kept
prepare_export_data(generation_results) ==
    LET variants == Flatten(generation_results)
        annotations == CollectAnnotations(variants, 0, 1)
        classes == UnifiedClasses({annotations[a].class_name : a \in 1..Len(annotations)})
    IN  [images |-> [v \in 1..Len(variants) |-> [id |-> v - 1]],
         annotations |-> UnifyClassIds(annotations, classes),
         classes |-> classes]

\* the encoders _create_export_files calls for a format tag
Encoders(format) ==
    CASE format = "yolo_detection"    -> <<"export_yolo_detection">>
      [] format = "yolo_segmentation" -> <<"export_yolo_segmentation">>
      [] format = "coco"              -> <<"export_coco">>
      [] format = "pascal_voc"        -> <<"export_pascal_voc">>
      [] format = "csv"               -> <<"export_csv">>
      [] OTHER                        -> <<>>

----------------------------------------------------------------------------
(* generate_release: state of one invocation *)

Collaborators == {"catalog", "index", "expander", "engine", "executor", "writer"}

\* which of the two orchestrator files runs
Impls == {"core", "legacy"}

IdleRun ==
    [pc |-> "idle", impl |-> "core", release_version |-> "", config |-> None,
     release_id |-> NoId, transformation_records |-> <<>>, image_records |-> <<>>,
     image_paths |-> <<>>, all_results |-> <<>>, optimal_export_format |-> "",
     export_data |-> None, export_path |-> None, exc |-> None,
     files |-> {}, resolved |-> <<>>, dataset_splits |-> <<>>,
     calls |-> [c \in Collaborators |-> 0], commits |-> <<>>, encoders |-> <<>>]

\* the invocation has ended: its frame is gone, only how it ended remains
Ended(how) == [IdleRun EXCEPT !.pc = how]

\* the texts of the failures that reach the handler of generate_release
NoTransformationsError == <<"No pending transformations found for version">>
NoImagesError == <<"No images found in datasets">>
CommitError == <<"commit failed">>
ExpanderError == <<"expander error">>
EngineError == <<"engine error">>
ExecutorError == <<"executor error">>

Active(k) == run[k].pc \notin {"idle", "returned", "raised"}

\* generate_release is a blocking call of a single caller
CallerFree == \A j \in Runs : ~Active(j)

Called(k, c) == [run[k].calls EXCEPT ![c] = @ + 1]

NewRelease(config) ==
    [export_format |-> config.export_format, task_type |-> config.task_type,
     total_original_images |-> NULL, total_augmented_images |-> NULL,
     final_image_count |-> NULL, model_path |-> None]

\* no update in flight, nothing read yet
NoDirect == [pc |-> "idle", release_id |-> NoId, kwargs |-> <<>>, seen |-> None]

Init ==
    /\ run = [k \in Runs |-> IdleRun]
    /\ release_progress = <<>>
    /\ releases = <<>>
    /\ transformations = InitialCatalog
    /\ dirty = NoWrites
    /\ fs = {}
    /\ direct = NoDirect

\* the caller invokes generate_release(config, release_version) of one implementation
Generate(k, impl, menu) ==
    /\ run[k].pc = "idle"
    /\ CallerFree
    /\ \A j \in Runs : j < k => run[j].pc # "idle"
    /\ \E config \in menu, release_version \in Versions :
          run' = [run EXCEPT ![k] = [@ EXCEPT !.pc = "create_record", !.impl = impl,
                                                !.config = <<config>>,
                                                !.release_version = release_version]]
    /\ UNCHANGED <<release_progress, releases, transformations, dirty, fs, direct>>

\* lines 214-216 and create_release_record: add, commit; on error rollback and raise
CreateRecord(k) ==
    /\ run[k].pc = "create_record"
    /\ \E ok \in BOOLEAN :
          IF ok
          THEN /\ releases' = ApplyWrites(releases, dirty) @@ (k :> NewRelease(run[k].config[1]))
               /\ dirty' = NoWrites
               /\ run' = [run EXCEPT ![k] = [@ EXCEPT !.pc = "init_progress", !.release_id = k,
                                                     !.commits = Append(@, <<"create", "ok">>)]]
          ELSE /\ releases' = releases
               /\ dirty' = NoWrites
               /\ run' = [run EXCEPT ![k] = [@ EXCEPT !.pc = "except",
                                                     !.exc = CommitError,
                                                     !.commits = Append(@, <<"create", "rollback">>)]]
    /\ UNCHANGED <<release_progress, transformations, fs, direct>>

\* lines 218-224
InitProgress(k) ==
    /\ run[k].pc = "init_progress"
    /\ release_progress' = update_release_progress(release_progress, run[k].release_id,
           [status |-> "processing", current_step |-> "loading_data", started_at |-> <<"utcnow">>])
    /\ run' = [run EXCEPT ![k].pc = "load_transformations"]
    /\ UNCHANGED <<releases, transformations, dirty, fs, direct>>

\* LoadTransformations without the check of line 228
LoadTransformations_Unchecked(k) ==
    /\ run[k].pc = "load_transformations"
    /\ run' = [run EXCEPT ![k] = [@ EXCEPT !.pc = "load_images", !.calls = Called(k, "catalog"),
                  !.transformation_records =
                      PendingQuery(transformations, run[k].release_version)]]
    /\ UNCHANGED <<release_progress, releases, transformations, dirty, fs, direct>>

\* LoadTransformations with a loader that lets the error of its query through
LoadTransformations_Propagating(k) ==
    /\ run[k].pc = "load_transformations"
    /\ \E ok \in BOOLEAN :
          LET records == PendingQuery(transformations, run[k].release_version)
          IN  run' = [run EXCEPT ![k] =
                        IF ~ok
                        THEN [@ EXCEPT !.pc = "except", !.calls = Called(k, "catalog"),
                                       !.exc = <<"query failed">>]
                        ELSE IF records = <<>>
                        THEN [@ EXCEPT !.pc = "except", !.calls = Called(k, "catalog"),
                                       !.exc = NoTransformationsError]
                        ELSE [@ EXCEPT !.pc = "load_images", !.calls = Called(k, "catalog"),
                                       !.transformation_records = records]]
    /\ UNCHANGED <<release_progress, releases, transformations, dirty, fs, direct>>

\* lines 226-229 and load_pending_transformations: a failing query gives []
LoadTransformations(k) ==
    /\ run[k].pc = "load_transformations"
    /\ \E ok \in BOOLEAN :
          LET records == IF ok THEN PendingQuery(transformations, run[k].release_version)
                         ELSE <<>>
          IN  run' = [run EXCEPT ![k] =
                        IF records = <<>>
                        THEN [@ EXCEPT !.pc = "except", !.calls = Called(k, "catalog"),
                                       !.exc = NoTransformationsError]
                        ELSE [@ EXCEPT !.pc = "load_images", !.calls = Called(k, "catalog"),
                                       !.transformation_records = records]]
    /\ UNCHANGED <<release_progress, releases, transformations, dirty, fs, direct>>

\* LoadImages without the check of line 233
LoadImages_Unchecked(k) ==
    /\ run[k].pc = "load_images"
    /\ run' = [run EXCEPT ![k] = [@ EXCEPT !.pc = "progress_total", !.calls = Called(k, "index"),
                  !.image_records = ImageQuery(run[k].config[1].dataset_ids)]]
    /\ UNCHANGED <<release_progress, releases, transformations, dirty, fs, direct>>

\* lines 231-234 and get_dataset_images: a failing query gives []
LoadImages(k) ==
    /\ run[k].pc = "load_images"
    /\ \E ok \in BOOLEAN :
          LET records == IF ok THEN ImageQuery(run[k].config[1].dataset_ids) ELSE <<>>
          IN  run' = [run EXCEPT ![k] =
                        IF records = <<>>
                        THEN [@ EXCEPT !.pc = "except", !.calls = Called(k, "index"),
                                       !.exc = NoImagesError]
                        ELSE [@ EXCEPT !.pc = "progress_total", !.calls = Called(k, "index"),
                                       !.image_records = records]]
    /\ UNCHANGED <<release_progress, releases, transformations, dirty, fs, direct>>

\* lines 236-241
ProgressTotal(k) ==
    /\ run[k].pc = "progress_total"
    /\ release_progress' = update_release_progress(release_progress, run[k].release_id,
           [total_images |-> Len(run[k].image_records),
            current_step |-> "generating_configurations"])
    /\ run' = [run EXCEPT ![k].pc = "expand"]
    /\ UNCHANGED <<releases, transformations, dirty, fs, direct>>

\* lines 243-249: generate_release_configurations returns or raises
Expand(k) ==
    /\ run[k].pc = "expand"
    /\ \E ok \in BOOLEAN :
          run' = [run EXCEPT ![k] =
                    IF ok THEN [@ EXCEPT !.pc = "progress_processing",
                                         !.calls = Called(k, "expander")]
                    ELSE [@ EXCEPT !.pc = "except", !.calls = Called(k, "expander"),
                                   !.exc = ExpanderError]]
    /\ UNCHANGED <<release_progress, releases, transformations, dirty, fs, direct>>

\* lines 251-255
ProgressProcessing(k) ==
    /\ run[k].pc = "progress_processing"
    /\ release_progress' = update_release_progress(release_progress, run[k].release_id,
           [current_step |-> "processing_images"])
    /\ run' = [run EXCEPT ![k].pc = "create_engine"]
    /\ UNCHANGED <<releases, transformations, dirty, fs, direct>>

\* lines 257-259: create_augmentation_engine returns or raises
CreateEngine(k) ==
    /\ run[k].pc = "create_engine"
    /\ \E ok \in BOOLEAN :
          run' = [run EXCEPT ![k] =
                    IF ok THEN [@ EXCEPT !.pc = "resolve_paths", !.calls = Called(k, "engine")]
                    ELSE [@ EXCEPT !.pc = "except", !.calls = Called(k, "engine"),
                                   !.exc = EngineError]]
    /\ UNCHANGED <<release_progress, releases, transformations, dirty, fs, direct>>


RECURSIVE Existing(_, _)
\* the image records whose resolved path is in exists, in order
Existing(image_records, exists) ==
    IF image_records = <<>> THEN <<>>
    ELSE (IF Head(image_records) \in exists THEN <<Head(image_records)>> ELSE <<>>)
         \o Existing(Tail(image_records), exists)

\* dataset_splits: the split section of every image path kept
DatasetSplits(image_paths) == [p \in Range(image_paths) |-> SplitSection(p)]

\* lines 261-272: images whose resolved path does not exist are skipped
ResolvePaths(k) ==
    /\ run[k].pc = "resolve_paths"
    /\ \E exists \in SUBSET Range(run[k].image_records) :
          run' = [run EXCEPT ![k] = [@ EXCEPT !.pc = "execute",
                      !.image_paths = Existing(run[k].image_records, exists),
                      !.dataset_splits =
                          DatasetSplits(Existing(run[k].image_records, exists))]]
    /\ UNCHANGED <<release_progress, releases, transformations, dirty, fs, direct>>

\* ResolvePathsOn without the test of line 268
ResolvePathsOn_KeepAll(k) ==
    /\ run[k].pc = "resolve_paths"
    /\ \E files \in SUBSET FileMenu(Range(run[k].image_records)) :
          LET image_records == run[k].image_records
              resolved == [i \in 1..Len(image_records) |->
                              resolve_image_path(StoredPath(image_records[i]), files)]
          IN  run' = [run EXCEPT ![k] = [@ EXCEPT !.pc = "execute",
                          !.files = files, !.resolved = resolved,
                          !.image_paths = image_records,
                          !.dataset_splits = DatasetSplits(image_records)]]
    /\ UNCHANGED <<release_progress, releases, transformations, dirty, fs, direct>>

\* lines 261-272 with the files that exist at the time: each stored path is
\* resolved, and the image is kept when the resolved path exists
ResolvePathsOn(k) ==
    /\ run[k].pc = "resolve_paths"
    /\ \E files \in SUBSET FileMenu(Range(run[k].image_records)) :
          LET image_records == run[k].image_records
              resolved == [i \in 1..Len(image_records) |->
                              resolve_image_path(StoredPath(image_records[i]), files)]
              found == {image_records[i] : i \in {j \in 1..Len(image_records) :
                                                       Exists(resolved[j], files)}}
          IN  run' = [run EXCEPT ![k] = [@ EXCEPT !.pc = "execute",
                          !.files = files, !.resolved = resolved,
                          !.image_paths = Existing(image_records, found),
                          !.dataset_splits = DatasetSplits(Existing(image_records, found))]]
    /\ UNCHANGED <<release_progress, releases, transformations, dirty, fs, direct>>

\* lines 274-281: process_release_images returns the variants of every source,
\* written below output_dir, or raises with output_dir created or not
ExecuteFrom(k, variant_menu) ==
    /\ run[k].pc = "execute"
    /\ \/ \E all_results \in ResultsFrom(run[k].image_paths, variant_menu) :
             /\ run' = [run EXCEPT ![k] = [@ EXCEPT !.pc = "progress_finalizing",
                                                   !.calls = Called(k, "executor"),
                                                   !.all_results = all_results]]
             /\ fs' = fs \cup {OutputDir(run[k].release_id)}
       \/ /\ run' = [run EXCEPT ![k] = [@ EXCEPT !.pc = "except",
                                                !.calls = Called(k, "executor"),
                                                !.exc = ExecutorError]]
          /\ fs' \in {fs, fs \cup {OutputDir(run[k].release_id)}}
    /\ UNCHANGED <<release_progress, releases, transformations, dirty, direct>>

Execute(k) == ExecuteFrom(k, VariantMenu)

\* ProgressFinalizing counting the generated variants as processed images too
ProgressFinalizing_CountingVariants(k) ==
    /\ run[k].pc = "progress_finalizing"
    /\ release_progress' = update_release_progress(release_progress, run[k].release_id,
           [processed_images |-> Len(run[k].image_paths) + SumLen(run[k].all_results),
            generated_images |-> SumLen(run[k].all_results),
            current_step |-> "finalizing"])
    /\ run' = [run EXCEPT ![k].pc = "update_counts"]
    /\ UNCHANGED <<releases, transformations, dirty, fs, direct>>

\* lines 283-292
ProgressFinalizing(k) ==
    /\ run[k].pc = "progress_finalizing"
    /\ release_progress' = update_release_progress(release_progress, run[k].release_id,
           [processed_images |-> Len(run[k].image_paths),
            generated_images |-> SumLen(run[k].all_results),
            current_step |-> "finalizing"])
    /\ run' = [run EXCEPT ![k].pc = "update_counts"]
    /\ UNCHANGED <<releases, transformations, dirty, fs, direct>>

\* CountWrites with the originals in the final count whatever include_original
CountWrites_WithOriginals(k) ==
    LET total_generated == SumLen(run[k].all_results)
        originals == Len(run[k].image_paths)
    IN  [total_original_images |-> originals,
         total_augmented_images |-> total_generated,
         final_image_count |-> total_generated + originals,
         model_path |-> <<OutputDir(run[k].release_id)>>]

\* the attribute writes of lines 297-300
CountWrites(k) ==
    LET total_generated == SumLen(run[k].all_results)
        originals == Len(run[k].image_paths)
    IN  [total_original_images |-> originals,
         total_augmented_images |-> total_generated,
         final_image_count |-> total_generated
                               + (IF run[k].config[1].include_original THEN originals ELSE 0),
         model_path |-> <<OutputDir(run[k].release_id)>>]

\* UpdateCounts leaving its writes to the commit of the marking
UpdateCounts_Deferred(k) ==
    /\ run[k].pc = "update_counts"
    /\ run[k].release_id \in DOMAIN releases
    /\ dirty' = HoldWrites(dirty, run[k].release_id, CountWrites(k))
    /\ run' = [run EXCEPT ![k].pc = "mark_completed"]
    /\ UNCHANGED <<release_progress, releases, transformations, fs, direct>>

\* lines 294-301: the writes and their commit; a failing commit raises out of
\* the try block with the writes still held by the session (no rollback here)
UpdateCounts(k) ==
    /\ run[k].pc = "update_counts"
    /\ run[k].release_id \in DOMAIN releases
    /\ LET held == HoldWrites(dirty, run[k].release_id, CountWrites(k))
       IN  \E ok \in BOOLEAN :
              IF ok
              THEN /\ releases' = ApplyWrites(releases, held)
                   /\ dirty' = NoWrites
                   /\ run' = [run EXCEPT ![k] = [@ EXCEPT !.pc = "mark_completed",
                                    !.commits = Append(@, <<"counts", "ok">>)]]
              ELSE /\ releases' = releases
                   /\ dirty' = held
                   /\ run' = [run EXCEPT ![k] = [@ EXCEPT !.pc = "except",
                                    !.exc = CommitError,
                                    !.commits = Append(@, <<"counts", "failed">>)]]
    /\ UNCHANGED <<release_progress, transformations, fs, direct>>

\* mark_transformations_completed: the rows with the given ids
MarkedRows(table, transformation_ids, release_id) ==
    [t \in DOMAIN table |->
        IF t \in transformation_ids
        THEN [table[t] EXCEPT !.status = "COMPLETED", !.release_id = release_id]
        ELSE table[t]]

\* what follows the marking: the export stages in the core controller, the
\* final progress update in backend/release.py
AfterMark(k) == IF run[k].impl = "core" THEN "select_format" ELSE "final_progress"

\* lines 303-305 and mark_transformations_completed: on error rollback, log, return
MarkCompleted(k) ==
    /\ run[k].pc = "mark_completed"
    /\ \E ok \in BOOLEAN :
          IF ok
          THEN /\ transformations' = MarkedRows(transformations,
                                         Range(run[k].transformation_records), run[k].release_id)
               /\ releases' = ApplyWrites(releases, dirty)
               /\ dirty' = NoWrites
               /\ run' = [run EXCEPT ![k] = [@ EXCEPT !.pc = AfterMark(k),
                                !.commits = Append(@, <<"mark", "ok">>)]]
          ELSE /\ transformations' = transformations
               /\ releases' = releases
               /\ dirty' = NoWrites
               /\ run' = [run EXCEPT ![k] = [@ EXCEPT !.pc = AfterMark(k),
                                !.commits = Append(@, <<"mark", "rollback">>)]]
    /\ UNCHANGED <<release_progress, fs, direct>>

\* lines 307-312
SelectFormat(k) ==
    /\ run[k].pc = "select_format"
    /\ run' = [run EXCEPT ![k] = [@ EXCEPT !.pc = "generate_export",
                  !.optimal_export_format =
                      select_optimal_export_format(run[k].all_results,
                          run[k].config[1].export_format, run[k].config[1].task_type)]]
    /\ UNCHANGED <<release_progress, releases, transformations, dirty, fs, direct>>

\* how _create_export_files may end
ExportOutcomes ==
    {"ok", "mkdtemp error", "makedirs error", "encoder error", "copy error", "relocate error"}

\* the directories after _create_export_files ended with outcome: mkdtemp and
\* makedirs of the staging directory come before the try block, the final
\* directory is made before the files are moved, and both handlers remove temp_dir
DirsAfterExport(dirs, release_id, outcome) ==
    CASE outcome = "ok"             -> dirs \cup {FinalExportDir(release_id)}
      [] outcome = "mkdtemp error"  -> dirs
      [] outcome = "makedirs error" -> dirs \cup {TempDir(release_id)}
      [] outcome = "relocate error" -> dirs \cup {FinalExportDir(release_id)}
      [] OTHER                      -> dirs

\* the encoders called before _create_export_files ended with outcome
EncodersCalled(format, outcome) ==
    IF outcome \in {"mkdtemp error", "makedirs error"} THEN <<>> ELSE Encoders(format)

\* lines 314-320 and _generate_export_files: every error of the export stage is
\* logged and gives None
GenerateExport(k) ==
    /\ run[k].pc = "generate_export"
    /\ \E outcome \in ExportOutcomes :
          /\ (outcome = "encoder error" => Encoders(run[k].optimal_export_format) # <<>>)
          /\ fs' = DirsAfterExport(fs, run[k].release_id, outcome)
          /\ run' = [run EXCEPT ![k] = [@ EXCEPT !.pc = "update_export",
                        !.calls = Called(k, "writer"),
                        !.encoders = EncodersCalled(run[k].optimal_export_format, outcome),
                        !.export_data = <<prepare_export_data(run[k].all_results)>>,
                        !.export_path = IF outcome = "ok"
                                        THEN <<FinalExportDir(run[k].release_id)>> ELSE None]]
    /\ UNCHANGED <<release_progress, releases, transformations, dirty, direct>>

\* ExportWrites with the format the configuration asked for
ExportWrites_Requested(k) ==
    [model_path |-> run[k].export_path, export_format |-> run[k].config[1].export_format,
     task_type |-> run[k].config[1].task_type]

\* the attribute writes of lines 324-326
ExportWrites(k) ==
    [model_path |-> run[k].export_path, export_format |-> run[k].optimal_export_format,
     task_type |-> run[k].config[1].task_type]

\* UpdateExport with "if release:" for the condition of line 323
UpdateExport_AnyPath(k) ==
    /\ run[k].pc = "update_export"
    /\ releases' = ApplyWrites(releases, HoldWrites(dirty, run[k].release_id, ExportWrites(k)))
    /\ dirty' = NoWrites
    /\ run' = [run EXCEPT ![k] = [@ EXCEPT !.pc = "final_progress",
                     !.commits = Append(@, <<"export", "ok">>)]]
    /\ UNCHANGED <<release_progress, transformations, fs, direct>>

\* lines 322-327: only with an export path; a failing commit raises out of the
\* try block with the writes still held by the session
UpdateExport(k) ==
    /\ run[k].pc = "update_export"
    /\ IF run[k].release_id \in DOMAIN releases /\ run[k].export_path # None
       THEN LET held == HoldWrites(dirty, run[k].release_id, ExportWrites(k))
            IN  \E ok \in BOOLEAN :
                   IF ok
                   THEN /\ releases' = ApplyWrites(releases, held)
                        /\ dirty' = NoWrites
                        /\ run' = [run EXCEPT ![k] = [@ EXCEPT !.pc = "final_progress",
                                         !.commits = Append(@, <<"export", "ok">>)]]
                   ELSE /\ releases' = releases
                        /\ dirty' = held
                        /\ run' = [run EXCEPT ![k] = [@ EXCEPT !.pc = "except",
                                         !.exc = CommitError,
                                         !.commits = Append(@, <<"export", "failed">>)]]
       ELSE /\ run' = [run EXCEPT ![k].pc = "final_progress"]
            /\ UNCHANGED <<releases, dirty>>
    /\ UNCHANGED <<release_progress, transformations, fs, direct>>

\* lines 329-336
FinalProgress(k) ==
    /\ run[k].pc = "final_progress"
    /\ release_progress' = update_release_progress(release_progress, run[k].release_id,
           [status |-> "completed", progress_percentage |-> Pct100,
            current_step |-> "completed", completed_at |-> <<"utcnow">>])
    /\ run' = [run EXCEPT ![k].pc = "return"]
    /\ UNCHANGED <<releases, transformations, dirty, fs, direct>>

\* line 339: return release_id
Return(k) ==
    /\ run[k].pc = "return"
    /\ run' = [run EXCEPT ![k] = Ended("returned")]
    /\ UNCHANGED <<release_progress, releases, transformations, dirty, fs, direct>>

\* str(e) behind the prefix of line 342
ErrorMessage(exc) == <<"Failed to generate release: ", exc[1]>>

\* Except as a handler that also takes the record of the release back
Except_Discarding(k) ==
    /\ run[k].pc = "except"
    /\ release_progress' =
          IF run[k].release_id # NoId
          THEN update_release_progress(release_progress, run[k].release_id,
                   [status |-> "failed", error_message |-> ErrorMessage(run[k].exc),
                    completed_at |-> <<"utcnow">>])
          ELSE release_progress
    /\ releases' = [r \in DOMAIN releases \ {run[k].release_id} |-> releases[r]]
    /\ run' = [run EXCEPT ![k].pc = "reraise"]
    /\ UNCHANGED <<transformations, dirty, fs, direct>>

\* Except as a handler that tries the run again from the catalog
Except_Retry(k) ==
    /\ run[k].pc = "except"
    /\ run' = [run EXCEPT ![k] = [@ EXCEPT !.pc = "load_transformations", !.exc = None,
                                          !.calls = [c \in Collaborators |-> 0]]]
    /\ UNCHANGED <<release_progress, releases, transformations, dirty, fs, direct>>

\* Except without the progress update of lines 345-351
Except_Silent(k) ==
    /\ run[k].pc = "except"
    /\ run' = [run EXCEPT ![k].pc = "reraise"]
    /\ UNCHANGED <<release_progress, releases, transformations, dirty, fs, direct>>

\* lines 341-351: the handler records the failure when a release id exists
Except(k) ==
    /\ run[k].pc = "except"
    /\ release_progress' =
          IF run[k].release_id # NoId
          THEN update_release_progress(release_progress, run[k].release_id,
                   [status |-> "failed", error_message |-> ErrorMessage(run[k].exc),
                    completed_at |-> <<"utcnow">>])
          ELSE release_progress
    /\ run' = [run EXCEPT ![k].pc = "reraise"]
    /\ UNCHANGED <<releases, transformations, dirty, fs, direct>>

\* line 353: raise
Reraise(k) ==
    /\ run[k].pc = "reraise"
    /\ run' = [run EXCEPT ![k] = Ended("raised")]
    /\ UNCHANGED <<release_progress, releases, transformations, dirty, fs, direct>>

\* the directories after cleanup_failed_release(release_id), with rmtree
\* succeeding (ok) or raising
DirsAfterCleanup(dirs, release_id, ok) ==
    IF ok THEN RmTree(dirs, OutputDir(release_id)) ELSE dirs

\* the progress map after it: an rmtree error is logged and ends the call
ProgressAfterCleanup(map, release_id, ok) ==
    IF ok THEN [r \in DOMAIN map \ {release_id} |-> map[r]] ELSE map

\* cleanup_failed_release(release_id): rmtree of the output directory when it
\* exists, then the progress entry
CleanupFailed(release_id) ==
    /\ CallerFree
    /\ \E ok \in BOOLEAN :
          /\ (~ok => OutputDir(release_id) \in fs)
          /\ fs' = DirsAfterCleanup(fs, release_id, ok)
          /\ release_progress' = ProgressAfterCleanup(release_progress, release_id, ok)
    /\ UNCHANGED <<run, releases, transformations, dirty, direct>>

Step(k) ==
    \/ CreateRecord(k) \/ InitProgress(k) \/ LoadTransformations(k) \/ LoadImages(k)
    \/ ProgressTotal(k) \/ Expand(k) \/ ProgressProcessing(k) \/ CreateEngine(k)
    \/ ResolvePaths(k) \/ Execute(k) \/ ProgressFinalizing(k) \/ UpdateCounts(k)
    \/ MarkCompleted(k) \/ FinalProgress(k) \/ Return(k) \/ Except(k) \/ Reraise(k)

ExportStep(k) == SelectFormat(k) \/ GenerateExport(k) \/ UpdateExport(k)

Cleanup == \E release_id \in Rids : CleanupFailed(release_id)

\* one invocation of the controller of backend/core/release_controller.py, with
\* cleanup_failed_release calls of the caller before and after it
Next ==
    \/ Generate(1, "core", Configs)
    \/ Step(1)
    \/ ExportStep(1)
    \/ Cleanup

Spec == Init /\ [][Next]_vars

\* the same of the controller of backend/release.py, which has no export stage
NextLegacy ==
    \/ Generate(1, "legacy", Configs)
    \/ Step(1)
    \/ Cleanup

SpecLegacy == Init /\ [][NextLegacy]_vars

\* the invocation is a blocking call in a thread that keeps running: once
\* called, every statement of generate_release is followed by the next, and
\* every collaborator call returns or raises
LiveConfigs == {c \in Configs : c.include_original /\ c.task_type = "object_detection"}

NextLive ==
    \/ Generate(1, "core", LiveConfigs)
    \/ Step(1)
    \/ ExportStep(1)
    \/ Cleanup

SpecLive == Init /\ [][NextLive]_vars /\ WF_vars(Step(1) \/ ExportStep(1))

----------------------------------------------------------------------------
(* One invocation seen at its export stage: any user format and task type,  *)
(* and variants with classes under several local ids                        *)

\* the stages before the image paths are resolved
Prepare(k) ==
    \/ CreateRecord(k) \/ InitProgress(k) \/ LoadTransformations(k) \/ LoadImages(k)
    \/ ProgressTotal(k) \/ Expand(k) \/ ProgressProcessing(k) \/ CreateEngine(k)

\* the stages after the executor other than the export stages, and the two ends
Finish(k) ==
    \/ ProgressFinalizing(k) \/ UpdateCounts(k) \/ MarkCompleted(k) \/ FinalProgress(k)
    \/ Return(k) \/ Except(k) \/ Reraise(k)

ExportConfigs ==
    [dataset_ids : {Datasets}, export_format : {"", "auto", "coco", "yolo"},
     task_type : TaskTypes \cup {"classification"}, include_original : {TRUE}]

NextExport ==
    \/ Generate(1, "core", ExportConfigs)
    \/ Prepare(1)
    \/ ResolvePaths(1)
    \/ ExecuteFrom(1, RichVariantMenu)
    \/ Finish(1)
    \/ ExportStep(1)
    \/ Cleanup

SpecExport == Init /\ [][NextExport]_vars

----------------------------------------------------------------------------
(* The progress tracker called directly, around one invocation *)

\* keyword arguments of a direct call: some fields, a percentage, an unknown name
UpdateMenu ==
    {[progress_percentage |-> <<1, 2>>], [total_images |-> 0], [processed_images |-> 1],
     [total_images |-> 2, processed_images |-> 1], [colour |-> "red"]}

\* the caller invokes update_release_progress(release_id, **kwargs)
PublicUpdate(release_id, kwargs) ==
    /\ CallerFree
    /\ release_progress' = update_release_progress(release_progress, release_id, kwargs)
    /\ UNCHANGED <<run, releases, transformations, dirty, fs, direct>>

\* the configuration of the invocation that the direct calls surround
PlainConfigs ==
    {c \in Configs : c.export_format = "auto" /\ c.task_type = "object_detection"
                     /\ c.include_original}

NextProgress ==
    \/ Generate(1, "core", PlainConfigs)
    \/ Step(1)
    \/ ExportStep(1)
    \/ Cleanup
    \/ \E release_id \in Rids, kwargs \in UpdateMenu : PublicUpdate(release_id, kwargs)

SpecProgress == Init /\ [][NextProgress]_vars

----------------------------------------------------------------------------
(* One invocation with the files of its images *)

NextResolver ==
    \/ Generate(1, "core", PlainConfigs)
    \/ Prepare(1)
    \/ ResolvePathsOn(1)
    \/ Execute(1)
    \/ Finish(1)
    \/ ExportStep(1)
    \/ Cleanup

SpecResolver == Init /\ [][NextResolver]_vars

----------------------------------------------------------------------------
(* The progress tracker called from two threads: update_release_progress   *)
(* statement by statement, and get_release_progress between its statements *)

\* keyword arguments of the updates, in the order they are passed
UpdateSequences ==
    {<<<<"total_images", 2>>>>, <<<<"processed_images", 1>>>>,
     <<<<"total_images", 2>>, <<"processed_images", 2>>>>, <<<<"colour", 7>>>>}

\* lines 159-171: the entry is made when there is none, and fetched
BeginUpdate(release_id, kwargs) ==
    /\ direct.pc = "idle"
    /\ release_progress' = update_release_progress(release_progress, release_id, <<>>)
    /\ direct' = [direct EXCEPT !.pc = "setattr", !.release_id = release_id, !.kwargs = kwargs]
    /\ UNCHANGED <<run, releases, transformations, dirty, fs>>

\* lines 173-175: one turn of the loop over kwargs
SetAttr ==
    /\ direct.pc = "setattr"
    /\ direct.kwargs # <<>>
    /\ direct.release_id \in DOMAIN release_progress
    /\ LET key == Head(direct.kwargs)[1]
           value == Head(direct.kwargs)[2]
       IN  release_progress' =
              [release_progress EXCEPT ![direct.release_id] = SetFields(@, key :> value)]
    /\ direct' = [direct EXCEPT !.kwargs = Tail(@)]
    /\ UNCHANGED <<run, releases, transformations, dirty, fs>>

\* lines 177-179: the percentage is recomputed after the loop
RecomputePercentage ==
    /\ direct.pc = "setattr"
    /\ direct.kwargs = <<>>
    /\ direct.release_id \in DOMAIN release_progress
    /\ release_progress' = [release_progress EXCEPT ![direct.release_id] = Recompute(@)]
    /\ direct' = [direct EXCEPT !.pc = "idle", !.release_id = NoId]
    /\ UNCHANGED <<run, releases, transformations, dirty, fs>>

\* get_release_progress(release_id) from the observer, and the fields it reads
Read(release_id) ==
    /\ direct' = [direct EXCEPT !.seen =
                     IF release_id \in DOMAIN release_progress
                     THEN <<get_release_progress(release_progress, release_id)>> ELSE None]
    /\ UNCHANGED <<run, release_progress, releases, transformations, dirty, fs>>

NextObserver ==
    \/ \E release_id \in Rids, kwargs \in UpdateSequences : BeginUpdate(release_id, kwargs)
    \/ SetAttr
    \/ RecomputePercentage
    \/ \E release_id \in Rids : Read(release_id)

SpecObserver == Init /\ [][NextObserver]_vars

----------------------------------------------------------------------------
(* Two invocations on one controller, from two threads: they share the     *)
(* session, the progress map and the filesystem                            *)

\* a thread invokes generate_release while another invocation may be running
Start(k, impl, menu) ==
    /\ run[k].pc = "idle"
    /\ \A j \in Runs : j < k => run[j].pc # "idle"
    /\ \E config \in menu, release_version \in Versions :
          run' = [run EXCEPT ![k] = [@ EXCEPT !.pc = "create_record", !.impl = impl,
                                                !.config = <<config>>,
                                                !.release_version = release_version]]
    /\ UNCHANGED <<release_progress, releases, transformations, dirty, fs, direct>>

\* lines 295-300: the attribute writes, held by the session
SetCounts(k) ==
    /\ run[k].pc = "update_counts"
    /\ run[k].release_id \in DOMAIN releases
    /\ dirty' = HoldWrites(dirty, run[k].release_id, CountWrites(k))
    /\ run' = [run EXCEPT ![k].pc = "commit_counts"]
    /\ UNCHANGED <<release_progress, releases, transformations, fs, direct>>

\* line 301: the commit of whatever the session holds
CommitCounts(k) ==
    /\ run[k].pc = "commit_counts"
    /\ \E ok \in BOOLEAN :
          IF ok
          THEN /\ releases' = ApplyWrites(releases, dirty)
               /\ dirty' = NoWrites
               /\ run' = [run EXCEPT ![k] = [@ EXCEPT !.pc = "mark_completed",
                                !.commits = Append(@, <<"counts", "ok">>)]]
          ELSE /\ releases' = releases
               /\ dirty' = dirty
               /\ run' = [run EXCEPT ![k] = [@ EXCEPT !.pc = "except",
                                !.exc = CommitError,
                                !.commits = Append(@, <<"counts", "failed">>)]]
    /\ UNCHANGED <<release_progress, transformations, fs, direct>>

\* the configuration of the interleaved invocations
OneConfig == {c \in PlainConfigs : c.dataset_ids = {"ds1"}}

NextInterleaved ==
    \E k \in Runs :
        \/ Start(k, "core", OneConfig)
        \/ Prepare(k)
        \/ ResolvePaths(k)
        \/ Execute(k)
        \/ ProgressFinalizing(k)
        \/ SetCounts(k)
        \/ CommitCounts(k)
        \/ MarkCompleted(k)
        \/ ExportStep(k)
        \/ FinalProgress(k)
        \/ Return(k)
        \/ Except(k)
        \/ Reraise(k)

SpecInterleaved == Init /\ [][NextInterleaved]_vars

----------------------------------------------------------------------------
(* The progress tracker alone: updates, reads and cleanups of a caller *)

NextTracker ==
    \/ \E release_id \in Rids, kwargs \in UpdateMenu : PublicUpdate(release_id, kwargs)
    \/ \E release_id \in Rids : Read(release_id)
    \/ Cleanup

SpecTracker == Init /\ [][NextTracker]_vars

----------------------------------------------------------------------------
(* One invocation, with reads and cleanup calls of another thread while it *)
(* runs                                                                    *)

\* cleanup_failed_release(release_id) from a thread other than the one that
\* runs generate_release
CleanupMeanwhile(release_id) ==
    /\ \E ok \in BOOLEAN :
          /\ (~ok => OutputDir(release_id) \in fs)
          /\ fs' = DirsAfterCleanup(fs, release_id, ok)
          /\ release_progress' = ProgressAfterCleanup(release_progress, release_id, ok)
    /\ UNCHANGED <<run, releases, transformations, dirty, direct>>

NextMeanwhile ==
    \/ Generate(1, "core", OneConfig)
    \/ Step(1)
    \/ ExportStep(1)
    \/ \E release_id \in Rids : CleanupMeanwhile(release_id)
    \/ \E release_id \in Rids : Read(release_id)

SpecMeanwhile == Init /\ [][NextMeanwhile]_vars

----------------------------------------------------------------------------
(* Invocations one after the other on one controller and one database *)

NextSequential ==
    \/ \E k \in Runs : Generate(k, "core", OneConfig)
    \/ \E k \in Runs : Step(k)
    \/ \E k \in Runs : ExportStep(k)
    \/ Cleanup

SpecSequential == Init /\ [][NextSequential]_vars

----------------------------------------------------------------------------
(* Claims *)

\* run k holds a release id: its record was created
Created(k) == run[k].release_id # NoId
ProgressOf(k) == release_progress[run[k].release_id]
RowOf(k) == releases[run[k].release_id]

CommitFailed(k) == \E i \in 1..Len(run[k].commits) : run[k].commits[i][2] # "ok"

\* every stage of run k succeeded: nothing raised, the four commits were made
\* and the export writer gave a path
StagesSucceeded(k) ==
    /\ run[k].exc = None
    /\ run[k].export_path # None
    /\ run[k].commits = <<<<"create", "ok">>, <<"counts", "ok">>, <<"mark", "ok">>,
                          <<"export", "ok">>>>

\* C1: when generate_release ends a run that had an eligible transformation and
\* a resolvable image, the progress state is completed if every stage of the run
\* succeeded and failed otherwise.
C1_StatusMatchesStages ==
    \A k \in Runs :
        (/\ run[k].pc \in {"return", "reraise"}
         /\ Created(k)
         /\ run[k].transformation_records # <<>>
         /\ run[k].image_paths # <<>>)
        => ProgressOf(k).status = IF StagesSucceeded(k) THEN "completed" ELSE "failed"

\* C2: with no enabled pending record for the version, the run raises the
\* no-transformations failure, and when it does the progress entry is failed with
\* percentage 0 and zero counts, the row has no counts, no collaborator after the
\* catalog was called, and no transformation record and no directory changed.
C2_NoTransformationsFailure ==
    \A k \in Runs :
        /\ (/\ run[k].calls["catalog"] = 1
            /\ PendingQuery(InitialCatalog, run[k].release_version) = <<>>)
           => (run[k].pc \in {"except", "reraise"} /\ run[k].exc = NoTransformationsError)
        /\ (run[k].pc = "reraise" /\ run[k].exc = NoTransformationsError)
           => /\ ProgressOf(k).status = "failed"
              /\ ProgressOf(k).progress_percentage = Pct0
              /\ ProgressOf(k).total_images = 0
              /\ ProgressOf(k).processed_images = 0
              /\ ProgressOf(k).generated_images = 0
              /\ RowOf(k).total_original_images = NULL
              /\ RowOf(k).total_augmented_images = NULL
              /\ RowOf(k).final_image_count = NULL
              /\ \A c \in Collaborators \ {"catalog"} : run[k].calls[c] = 0
              /\ transformations = InitialCatalog
              /\ fs = {}

C2_Witness ==
    \E k \in Runs : run[k].pc = "reraise" /\ run[k].exc = NoTransformationsError

\* C3: with transformations loaded and no image in the datasets, the run raises
\* the no-images failure, and when it does the progress entry is failed with
\* percentage 0 and total 0, the row has no counts, neither the executor nor the
\* export writer was called, and the loaded records are still pending.
C3_NoImagesFailure ==
    \A k \in Runs :
        /\ (/\ run[k].calls["index"] = 1
            /\ ImageQuery(run[k].config[1].dataset_ids) = <<>>)
           => (run[k].pc \in {"except", "reraise"} /\ run[k].exc = NoImagesError)
        /\ (run[k].pc = "reraise" /\ run[k].exc = NoImagesError)
           => /\ ProgressOf(k).status = "failed"
              /\ ProgressOf(k).progress_percentage = Pct0
              /\ ProgressOf(k).total_images = 0
              /\ RowOf(k).total_original_images = NULL
              /\ RowOf(k).total_augmented_images = NULL
              /\ RowOf(k).final_image_count = NULL
              /\ run[k].calls["executor"] = 0
              /\ run[k].calls["writer"] = 0
              /\ run[k].transformation_records # <<>>
              /\ \A t \in Range(run[k].transformation_records) :
                    /\ transformations[t].status = "PENDING"
                    /\ transformations[t].release_id = NoId

C3_Witness ==
    \E k \in Runs : run[k].pc = "reraise" /\ run[k].exc = NoImagesError

\* C4: every progress entry has percentage 100 * processed / total when total > 0
\* and percentage 0 when total = 0.
C4_PercentageDerived ==
    \A r \in DOMAIN release_progress :
        release_progress[r].progress_percentage =
            IF release_progress[r].total_images > 0
            THEN Percent(release_progress[r].processed_images, release_progress[r].total_images)
            ELSE Pct0

\* C5: from one state to the next, the percentage of an entry that is processing
\* in both does not decrease.
C5_PercentageMonotone ==
    [][\A r \in DOMAIN release_progress \cap DOMAIN release_progress' :
          (release_progress[r].status = "processing" /\ release_progress'[r].status = "processing")
          => PctLeq(release_progress[r].progress_percentage,
                    release_progress'[r].progress_percentage)]_vars

C5_Witness ==
    \E r \in DOMAIN release_progress :
        /\ release_progress[r].status = "processing"
        /\ release_progress[r].progress_percentage # Pct0

\* C6: when generate_release returns, the progress entry is completed at
\* percentage 100 with step "completed".
C6_ReturnsAtHundred ==
    \A k \in Runs :
        run[k].pc = "return"
        => /\ ProgressOf(k).status = "completed"
           /\ ProgressOf(k).progress_percentage = Pct100
           /\ ProgressOf(k).current_step = "completed"

\* C7: a release whose progress is completed had the export writer entered
\* earlier in its run.
C7_CompletedAfterExportAttempt ==
    \A k \in Runs :
        (/\ Created(k)
         /\ run[k].release_id \in DOMAIN release_progress
         /\ ProgressOf(k).status = "completed")
        => run[k].calls["writer"] >= 1

\* the export writer was entered in run k and gave no path
WriterFailed(k) == run[k].calls["writer"] = 1 /\ run[k].export_path = None

\* C8: after the export writer failed, the run goes on without raising, makes no
\* post-export commit, leaves the row with the output directory and the
\* requested format, and returns with progress completed.
C8_ExportFailureSwallowed ==
    \A k \in Runs :
        WriterFailed(k)
        => /\ run[k].pc \in {"update_export", "final_progress", "return"}
           /\ run[k].exc = None
           /\ \A i \in 1..Len(run[k].commits) : run[k].commits[i][1] # "export"
           /\ RowOf(k).model_path = <<OutputDir(run[k].release_id)>>
           /\ RowOf(k).export_format = run[k].config[1].export_format
           /\ (run[k].pc = "return" => ProgressOf(k).status = "completed")

C8_Witness ==
    \E k \in Runs : WriterFailed(k) /\ run[k].pc = "return"

C10_PersistenceFailureFatal ==
    \A k \in Runs :
        CommitFailed(k)
        => /\ run[k].pc # "return"
           /\ (Created(k) => ProgressOf(k).status # "completed")
           /\ (run[k].pc = "reraise" => dirty = NoWrites)

\* the payload run k prepared
PayloadOf(k) == run[k].export_data[1]

\* name a comes before name b in lexicographic order
NameBefore(a, b) ==
    \E i, j \in 1..Len(NameOrder) : i < j /\ NameOrder[i] = a /\ NameOrder[j] = b

\* C11: in every payload the aggregator prepared, each annotation's class id is
\* an index of the class list whose entry has the annotation's class name, two
\* annotations of one name have one id, and the class list has one entry per
\* class name of the results, in ascending name order with ids 0, 1, 2, ...
C11_ClassIdsUnified ==
    \A k \in Runs :
        run[k].export_data # None
        => LET p == PayloadOf(k)
               names == {ClassNameOf(ann) : ann \in AnnotationsOf(run[k].all_results)}
           IN  /\ \A a \in 1..Len(p.annotations) :
                     /\ p.annotations[a].class_id \in 0..(Len(p.classes) - 1)
                     /\ p.classes[p.annotations[a].class_id + 1].name
                           = p.annotations[a].class_name
               /\ \A a, b \in 1..Len(p.annotations) :
                     p.annotations[a].class_name = p.annotations[b].class_name
                     => p.annotations[a].class_id = p.annotations[b].class_id
               /\ {p.annotations[a].class_name : a \in 1..Len(p.annotations)} = names
               /\ {p.classes[i].name : i \in 1..Len(p.classes)} = names
               /\ Len(p.classes) = Cardinality(names)
               /\ \A i \in 1..Len(p.classes) : p.classes[i].id = i - 1
               /\ \A i, j \in 1..Len(p.classes) :
                     i < j => NameBefore(p.classes[i].name, p.classes[j].name)

\* a payload with two classes, one of them under two executor-local ids
C11_Witness ==
    \E k \in Runs :
        /\ run[k].export_data # None
        /\ Len(PayloadOf(k).classes) = 2
        /\ \E ann, other \in AnnotationsOf(run[k].all_results) :
              ann.class_name = other.class_name /\ ann.class_id # other.class_id

\* the format of the decision table for a task type and the two booleans
TableFormat(task_type, hasPolygons, hasBboxes) ==
    CASE task_type = "segmentation" /\ hasPolygons      -> "yolo_segmentation"
      [] task_type = "segmentation" /\ ~hasPolygons     -> "coco"
      [] task_type = "object_detection" /\ hasPolygons  -> "coco"
      [] task_type = "object_detection" /\ ~hasPolygons -> "yolo_detection"
      [] OTHER                                          -> "coco"

\* C12: with the user format absent or "auto", the format selected for a run is
\* the one of the decision table for its task type and for whether some
\* annotation of its results is a polygon and whether some is a bounding box.
C12_DecisionTable ==
    \A k \in Runs :
        (/\ run[k].pc \in {"generate_export", "update_export"}
         /\ run[k].config[1].export_format \in {"", "auto"})
        => run[k].optimal_export_format =
              TableFormat(run[k].config[1].task_type,
                          \E ann \in AnnotationsOf(run[k].all_results) : ann.type = "polygon",
                          \E ann \in AnnotationsOf(run[k].all_results) : ann.type = "bbox")

\* object detection over results with both polygons and bounding boxes
C12_Witness ==
    \E k \in Runs :
        /\ run[k].pc = "generate_export"
        /\ run[k].config[1].export_format = "auto"
        /\ run[k].config[1].task_type = "object_detection"
        /\ \E ann \in AnnotationsOf(run[k].all_results) : ann.type = "polygon"
        /\ \E ann \in AnnotationsOf(run[k].all_results) : ann.type = "bbox"

\* C13: a user format that is present and not "auto" is the format selected,
\* whatever the task type and the annotations, also when no encoder knows it.
C13_UserFormatWins ==
    \A k \in Runs :
        (/\ run[k].pc \in {"generate_export", "update_export"}
         /\ run[k].config[1].export_format \notin {"", "auto"})
        => run[k].optimal_export_format = run[k].config[1].export_format

\* a tag without encoder, chosen over polygons in a segmentation task
C13_Witness ==
    \E k \in Runs :
        /\ run[k].pc = "generate_export"
        /\ run[k].config[1].export_format = "yolo"
        /\ run[k].config[1].task_type = "segmentation"
        /\ Encoders(run[k].optimal_export_format) = <<>>
        /\ \E ann \in AnnotationsOf(run[k].all_results) : ann.type = "polygon"

\* C14: a cleanup_failed_release call on any release id leaves neither the
\* output directory of the release nor a progress entry for it, and a second
\* call after it changes neither the directories nor the progress map.
C14_CleanupIdempotent ==
    \A release_id \in Rids, ok \in BOOLEAN :
        (CallerFree /\ (~ok => OutputDir(release_id) \in fs))
        => LET dirs == DirsAfterCleanup(fs, release_id, ok)
               map == ProgressAfterCleanup(release_progress, release_id, ok)
           IN  /\ OutputDir(release_id) \notin dirs
               /\ release_id \notin DOMAIN map
               /\ \A again \in BOOLEAN :
                     (~again => OutputDir(release_id) \in dirs)
                     => /\ DirsAfterCleanup(dirs, release_id, again) = dirs
                        /\ ProgressAfterCleanup(map, release_id, again) = map

\* the candidate bases in the order they are probed: the current working
\* location, the projects root, the uploads root
CandidateBases == <<".", "projects", "uploads">>

\* C15: each stored path of a run is resolved to itself when it is absolute,
\* to itself when it is relative and exists under no candidate base, and
\* otherwise to its join with the first candidate base under which it exists.
C15_ResolverContract ==
    \A k \in Runs :
        \A i \in 1..Len(run[k].resolved) :
            LET stored == StoredPath(run[k].image_records[i])
                under(b) == [abs |-> FALSE, base |-> CandidateBases[b], name |-> stored.name]
            IN  /\ stored.abs => run[k].resolved[i] = stored
                /\ (~stored.abs /\ \A b \in 1..3 : under(b) \notin run[k].files)
                   => run[k].resolved[i] = stored
                /\ \A b \in 1..3 :
                      (/\ ~stored.abs
                       /\ under(b) \in run[k].files
                       /\ \A c \in 1..(b - 1) : under(c) \notin run[k].files)
                      => run[k].resolved[i] = under(b)

\* a relative path that exists under the projects root and under the uploads
\* root, and an absolute one
C15_Witness ==
    \E k \in Runs :
        \E i, j \in 1..Len(run[k].resolved) :
            /\ ~StoredPath(run[k].image_records[i]).abs
            /\ run[k].resolved[i].base = "projects"
            /\ [run[k].resolved[i] EXCEPT !.base = "uploads"] \in run[k].files
            /\ StoredPath(run[k].image_records[j]).abs
            /\ run[k].resolved[j] \in run[k].files

\* C16: once the export writer was entered in a run and control is back in
\* generate_release, with a path or without, the staging directory of the
\* release does not exist.
C16_StagingRemoved ==
    \A k \in Runs :
        run[k].calls["writer"] >= 1 => TempDir(run[k].release_id) \notin fs

\* C17: the entry a reader got has the percentage that its own total and
\* processed counts give.
C17_ReadsAreConsistent ==
    direct.seen # None
    => direct.seen[1].progress_percentage =
          IF direct.seen[1].total_images > 0
          THEN Percent(direct.seen[1].processed_images, direct.seen[1].total_images)
          ELSE Pct0

\* the directories of release r
DirsOf(dirs, r) == {d \in dirs : d.id = r}

\* what the session holds for release r
HeldFor(held, r) == IF r \in DOMAIN held THEN <<held[r]>> ELSE None

\* C18: a step of one invocation leaves the progress entry, the directories,
\* the committed row and the held writes of the other invocation's release as
\* they were.
C18_ReleasesIndependent ==
    [][\A k, j \in Runs :
          (k # j /\ run'[k] # run[k] /\ run'[j] = run[j] /\ j \in DOMAIN releases)
          => /\ j \in DOMAIN releases' /\ releases'[j] = releases[j]
             /\ HeldFor(dirty', j) = HeldFor(dirty, j)
             /\ DirsOf(fs', j) = DirsOf(fs, j)
             /\ (j \in DOMAIN release_progress
                 => j \in DOMAIN release_progress'
                    /\ release_progress'[j] = release_progress[j])]_vars

\* C19: every invocation ends, returning or raising, and when it ends after
\* its record was created the progress state is completed or failed.
C19_TerminatesInFinalState ==
    /\ \A k \in Runs : Active(k) ~> run[k].pc \in {"returned", "raised"}
    /\ [](\A k \in Runs :
             (run[k].pc \in {"return", "reraise"} /\ Created(k))
             => ProgressOf(k).status \in {"completed", "failed"})

\* an invocation that raised after the executor was called, and its entry
C19_Witness ==
    /\ run[1].pc = "raised"
    /\ 1 \in DOMAIN release_progress
    /\ release_progress[1].status = "failed"
    /\ release_progress[1].total_images > 0

\* the commits of a run in their order
CommitOrder == <<"create", "counts", "mark", "export">>

\* C20: the commits a run has made so far are, in this order, those of the
\* record creation, the count update, the completion marking and the export
\* update, each made once and none before an earlier one.
C20_CommitsInOrder ==
    \A k \in Runs :
        /\ Len(run[k].commits) <= Len(CommitOrder)
        /\ \A i \in 1..Len(run[k].commits) : run[k].commits[i][1] = CommitOrder[i]
        /\ (Created(k) /\ RowOf(k).total_original_images # NULL)
           => \E i \in 1..Len(run[k].commits) : run[k].commits[i] = <<"counts", "ok">>

\* a committed row with its counts set and no export attached yet
C20_Witness ==
    \E k \in Runs :
        /\ run[k].commits = <<<<"create", "ok">>, <<"counts", "ok">>, <<"mark", "ok">>>>
        /\ dirty = NoWrites
        /\ RowOf(k).total_original_images # NULL
        /\ RowOf(k).model_path = <<OutputDir(run[k].release_id)>>
        /\ RowOf(k).export_format = "auto"

\* the positions of the successful commits of kind among commits
OkCommits(commits, kind) == {i \in 1..Len(commits) : commits[i] = <<kind, "ok">>}

\* C21: the rows of the release table change only in these ways: a run that
\* has no record yet adds the one row of its release id; the row of a run is
\* updated by that run's count commit and, after it, by its export commit,
\* each at most once; no row is ever removed.  A run that has a release id
\* has its row, also when it fails.
C21_RecordLifecycle ==
    /\ [][/\ DOMAIN releases \subseteq DOMAIN releases'
          /\ \A r \in DOMAIN releases' \ DOMAIN releases :
                /\ DOMAIN releases' = DOMAIN releases \cup {r}
                /\ \E k \in Runs : /\ run[k].pc = "create_record" /\ run[k].release_id = NoId
                                    /\ run'[k].release_id = r
          /\ \A r \in DOMAIN releases :
                releases'[r] # releases[r]
                => \E k \in Runs :
                      /\ run[k].release_id = r
                      /\ \/ /\ run[k].commits = <<<<"create", "ok">>>>
                            /\ run'[k].commits = Append(run[k].commits, <<"counts", "ok">>)
                         \/ /\ OkCommits(run[k].commits, "counts") # {}
                            /\ OkCommits(run[k].commits, "export") = {}
                            /\ run'[k].commits = Append(run[k].commits, <<"export", "ok">>)
         ]_vars
    /\ [](\A k \in Runs : Created(k) => run[k].release_id \in DOMAIN releases)

\* a run that raises after its count commit, with its row in the table
C21_Witness ==
    \E k \in Runs :
        /\ run[k].pc = "reraise"
        /\ Created(k)
        /\ run[k].release_id \in DOMAIN releases
        /\ RowOf(k).total_original_images # NULL

\* C22: when generate_release returns, every transformation record the run
\* loaded is completed and linked to the returned release id, and every other
\* record is as it was.
C22_LoadedRecordsCompleted ==
    \A k \in Runs :
        run[k].pc = "return"
        => /\ \A t \in Range(run[k].transformation_records) :
                 /\ transformations[t].status = "COMPLETED"
                 /\ transformations[t].release_id = run[k].release_id
           /\ \A t \in TransIds \ Range(run[k].transformation_records) :
                 transformations[t] = InitialCatalog[t]

\* the positions of the loaded images of run k whose resolved path exists
Resolvable(k) ==
    {i \in 1..Len(run[k].resolved) :
        IF run[k].resolved[i].abs \/ run[k].resolved[i].base # ""
        THEN run[k].resolved[i] \in run[k].files
        ELSE [run[k].resolved[i] EXCEPT !.base = "."] \in run[k].files}

\* C23: after the paths of a run were resolved the run goes on to the executor;
\* the paths handed to it are those of the images whose resolved path exists,
\* in the order they were loaded, each with its split section; the results
\* come per such path; and the processed count of the progress entry is the
\* number of these images.
C23_UnresolvedImagesSkipped ==
    \A k \in Runs :
        run[k].resolved # <<>>
        => /\ run[k].pc # "resolve_paths"
           /\ (run[k].pc = "execute" => run[k].exc = None)
           /\ Len(run[k].image_paths) = Cardinality(Resolvable(k))
           /\ \A n \in 1..Len(run[k].image_paths) :
                 \E i \in Resolvable(k) :
                    /\ run[k].image_paths[n] = run[k].image_records[i]
                    /\ Cardinality({j \in Resolvable(k) : j < i}) = n - 1
           /\ DOMAIN run[k].dataset_splits = Range(run[k].image_paths)
           /\ \A p \in Range(run[k].image_paths) :
                 run[k].dataset_splits[p] =
                    IF ImageTable[p].split_section = None THEN "train"
                    ELSE ImageTable[p].split_section[1]
           /\ \A i \in 1..Len(run[k].all_results) :
                 run[k].all_results[i].source = run[k].image_paths[i]
           /\ (run[k].pc \in {"update_counts", "mark_completed", "select_format",
                              "generate_export", "update_export", "final_progress", "return"}
               => /\ Len(run[k].all_results) = Len(run[k].image_paths)
                  /\ ProgressOf(k).processed_images = Cardinality(Resolvable(k)))

\* a run that returns with one of its two loaded images skipped
C23_Witness ==
    \E k \in Runs :
        /\ run[k].pc = "return"
        /\ Len(run[k].image_records) = 2
        /\ Cardinality(Resolvable(k)) = 1
        /\ ProgressOf(k).processed_images = 1
        /\ ProgressOf(k).total_images = 2

\* C24: once the count update of a run is committed, and until its export
\* update, the row has the number of resolved images as original count, the
\* number of variants of all sources as augmented count, their sum or the
\* augmented count alone as final count, by include_original, and the output
\* directory of the release as location; the generated count of the progress
\* entry is the augmented count.
C24_CountsAfterAugmentation ==
    \A k \in Runs :
        run[k].pc \in {"mark_completed", "select_format", "generate_export", "update_export"}
        => LET augmented == Len(Flatten(run[k].all_results))
               original == Len(run[k].image_paths)
           IN  /\ RowOf(k).total_original_images = original
               /\ RowOf(k).total_augmented_images = augmented
               /\ RowOf(k).final_image_count =
                     IF run[k].config[1].include_original THEN augmented + original
                     ELSE augmented
               /\ RowOf(k).model_path =
                     <<[base |-> "backend/releases", name |-> "{release_id}",
                        id |-> run[k].release_id, sub |-> ""]>>
               /\ ProgressOf(k).generated_images = augmented

\* originals left out of the final count of a run with images and variants
C24_Witness ==
    \E k \in Runs :
        /\ run[k].pc = "mark_completed"
        /\ ~run[k].config[1].include_original
        /\ RowOf(k).total_original_images > 0
        /\ RowOf(k).final_image_count > 0
        /\ RowOf(k).final_image_count = RowOf(k).total_augmented_images

\* C25: when a run in which the export writer gave a path has made its export
\* update and goes on to return, the row has the format the selector gives for
\* the run's results, user format and task type, which is not "auto", and has
\* the path the writer returned as location.
C25_ExportAttached ==
    \A k \in Runs :
        (run[k].pc \in {"final_progress", "return"} /\ run[k].export_path # None)
        => /\ RowOf(k).export_format =
                 select_optimal_export_format(run[k].all_results,
                     run[k].config[1].export_format, run[k].config[1].task_type)
           /\ RowOf(k).export_format # "auto"
           /\ RowOf(k).model_path = run[k].export_path
           /\ RowOf(k).model_path[1].sub = "export"

\* a run asked for "auto" that returns with a format chosen from polygons
C25_Witness ==
    \E k \in Runs :
        /\ run[k].pc = "return"
        /\ run[k].export_path # None
        /\ run[k].config[1].export_format = "auto"
        /\ RowOf(k).export_format = "yolo_segmentation"

\* C26: an invocation of the export writer that returned a path has called
\* exactly one encoder.
C26_ExactlyOneEncoder ==
    \A k \in Runs :
        (run[k].calls["writer"] = 1 /\ run[k].export_path # None)
        => Len(run[k].encoders) = 1

\* the entry a first update starts from
FreshEntry(release_id) ==
    [release_id |-> release_id, status |-> "pending", progress_percentage |-> <<0, 1>>,
     current_step |-> "initializing", total_images |-> 0, processed_images |-> 0,
     generated_images |-> 0, error_message |-> <<>>, started_at |-> <<>>,
     completed_at |-> <<>>]

\* C27: an update of release id r starts from a fresh entry when r has none,
\* sets the supplied fields that an entry has, sets the percentage to the one
\* its counts give, and leaves the other fields of r, the entries of other
\* ids and the set of ids, but for r, as they were; a read changes no entry
\* and gives nothing exactly for an id without entry.
C27_UpdateFrame ==
    [][/\ \A r \in Rids, kwargs \in UpdateMenu :
             PublicUpdate(r, kwargs)
             => LET old == IF r \in DOMAIN release_progress THEN release_progress[r]
                           ELSE FreshEntry(r)
                    new == release_progress'[r]
                    supplied == DOMAIN kwargs \cap DOMAIN old
                IN  /\ DOMAIN release_progress' = DOMAIN release_progress \cup {r}
                    /\ \A o \in DOMAIN release_progress \ {r} :
                          release_progress'[o] = release_progress[o]
                    /\ \A f \in DOMAIN old \ {"progress_percentage"} :
                          new[f] = IF f \in supplied THEN kwargs[f] ELSE old[f]
                    /\ new.progress_percentage =
                          IF new.total_images > 0
                          THEN Percent(new.processed_images, new.total_images)
                          ELSE IF "progress_percentage" \in supplied
                               THEN kwargs.progress_percentage
                               ELSE old.progress_percentage
       /\ \A r \in Rids :
             Read(r) => /\ release_progress' = release_progress
                        /\ (direct'.seen = <<>>) = (r \notin DOMAIN release_progress)
      ]_vars

\* an entry made by an update that supplied only a name no entry has, next to
\* an entry with counts that was read
C27_Witness ==
    /\ 1 \in DOMAIN release_progress
    /\ 2 \in DOMAIN release_progress
    /\ release_progress[1] = FreshEntry(1)
    /\ release_progress[2].processed_images = 1
    /\ release_progress[2].total_images = 2
    /\ direct.seen = <<release_progress[2]>>

\* C28: once a run has set its progress entry to processing, the entry is not
\* pending again, and it is completed or failed only when the run is at its
\* return or its raise.
C28_ProgressStateMachine ==
    \A k \in Runs :
        (/\ Active(k) /\ Created(k) /\ run[k].pc # "init_progress"
         /\ run[k].release_id \in DOMAIN release_progress)
        => /\ ProgressOf(k).status # "pending"
           /\ (ProgressOf(k).status \in {"completed", "failed"}
               => run[k].pc \in {"return", "reraise"})
           /\ (run[k].pc = "return" => ProgressOf(k).status = "completed")
           /\ (run[k].pc = "reraise" => ProgressOf(k).status = "failed")

\* the class names and types of the payload's annotations that refer to image_id,
\* in payload order
CarriedBy(payload, image_id) ==
    LET anns == SelectSeq(payload.annotations, LAMBDA ann : ann.image_id = image_id)
    IN  [a \in 1..Len(anns) |-> <<anns[a].class_name, anns[a].type>>]

\* C29: the payload's image list has one entry per generated variant, the v-th
\* variant in iteration order with id v - 1, and the annotations that refer to
\* an id are those of the variant with that id, in their order.
C29_PayloadImageIds ==
    \A k \in Runs :
        run[k].export_data # None
        => LET variants == Flatten(run[k].all_results)
               payload == PayloadOf(k)
           IN  /\ Len(payload.images) = Len(variants)
               /\ \A v \in 1..Len(variants) :
                     /\ payload.images[v].id = v - 1
                     /\ CarriedBy(payload, v - 1)
                          = [a \in 1..Len(variants[v].annotations) |->
                               <<ClassNameOf(variants[v].annotations[a]),
                                 variants[v].annotations[a].type>>]
               /\ \A a \in 1..Len(payload.annotations) :
                     payload.annotations[a].image_id \in 0..(Len(variants) - 1)

\* a payload of two sources whose second source has a variant with an
\* annotation, the first source having a variant too
C29_Witness ==
    \E k \in Runs :
        /\ run[k].export_data # None
        /\ Len(run[k].all_results) >= 2
        /\ Len(run[k].all_results[1].variants) >= 1
        /\ Len(run[k].all_results[2].variants) >= 1
        /\ \E a \in 1..Len(PayloadOf(k).annotations) :
              PayloadOf(k).annotations[a].image_id >= 1

\* C30: the final export location of a release is the export subdirectory of
\* its output directory, and what a successful cleanup of the release leaves
\* holds no directory of the release.
C30_ExportUnderOutputDir ==
    \A k \in Runs :
        run[k].export_path # None
        => LET release_id == run[k].release_id
               export_path == run[k].export_path[1]
           IN  /\ export_path.base = OutputDir(release_id).base
               /\ export_path.name = OutputDir(release_id).name
               /\ export_path.sub = "export"
               /\ DirsOf(DirsAfterCleanup(fs, release_id, TRUE), release_id) = {}

\* C31: when generate_release raises, the transformation table is as it was
\* before the call: every record that was pending is still pending and unlinked.
C31_FailedRunLeavesCatalog ==
    \A k \in Runs :
        run[k].pc = "reraise"
        => \A t \in TransIds :
              InitialCatalog[t].status = "PENDING"
              => /\ transformations[t].status = "PENDING"
                 /\ transformations[t].release_id = NoId

\* the records run k loaded and then marked with a commit that succeeded
MarkedBy(k) ==
    IF <<"mark", "ok">> \in Range(run[k].commits)
    THEN Range(run[k].transformation_records) ELSE {}

\* a record that a run marked is still linked to that run's release
C32_LinkKept ==
    \A k \in Runs : \A t \in MarkedBy(k) :
        transformations[t].release_id = run[k].release_id

\* C32: two invocations never hold the same loaded transformation record, and
\* a record that one release marked is not linked to another release afterwards.
C32_ConsumedOnce ==
    /\ \A k, j \in Runs :
          k # j => Range(run[k].transformation_records)
                     \cap Range(run[j].transformation_records) = {}
    /\ C32_LinkKept

\* release earlier returned with the records of release_version marked by it
ConsumedBy(earlier, release_version) ==
    /\ run[earlier].pc = "returned"
    /\ \E t \in TransIds : /\ transformations[t].release_version = release_version
                            /\ transformations[t].release_id = earlier

\* C33: an invocation for a version whose records an earlier invocation that
\* returned has marked gets no further than the loader, fails with the
\* no-transformations failure, and has by then a record of its own and a
\* progress entry of its own in state failed.
C33_SecondRunFails ==
    \A k, earlier \in Runs :
        (/\ earlier < k /\ Created(k)
         /\ ConsumedBy(earlier, run[k].release_version))
        => /\ run[k].pc \in {"init_progress", "load_transformations", "except", "reraise"}
           /\ run[k].pc \in {"except", "reraise"} => run[k].exc = NoTransformationsError
           /\ run[k].release_id # earlier
           /\ run[k].release_id \in DOMAIN releases
           /\ earlier \in DOMAIN releases
           /\ run[k].pc = "reraise"
              => /\ run[k].release_id \in DOMAIN release_progress
                 /\ ProgressOf(k).status = "failed"

\* the second invocation about to raise after the first consumed its version
C33_Witness ==
    \E k, earlier \in Runs :
        /\ earlier < k /\ Created(k)
        /\ ConsumedBy(earlier, run[k].release_version)
        /\ run[k].pc = "reraise"
        /\ run[k].exc = NoTransformationsError
        /\ ProgressOf(k).status = "failed"
        /\ DOMAIN releases = {earlier, run[k].release_id}

\* C34: a loading step of a run either takes the result of its query, which is
\* not empty, or ends in the handler with the validation failure of its loader
\* and nothing else of the run changed, whether the query failed or gave
\* nothing; nothing outside the run changes.
C34_QueryErrorIsEmptyList ==
    [][\A k \in Runs :
          (run[k].pc \in {"load_transformations", "load_images"} /\ run'[k] # run[k])
          => LET catalog == run[k].pc = "load_transformations"
                 frame == [run[k] EXCEPT
                             !.calls = Called(k, IF catalog THEN "catalog" ELSE "index")]
             IN  /\ \/ /\ catalog
                       /\ PendingQuery(transformations, run[k].release_version) # <<>>
                       /\ run'[k] = [frame EXCEPT !.pc = "load_images",
                              !.transformation_records =
                                  PendingQuery(transformations, run[k].release_version)]
                    \/ /\ ~catalog
                       /\ ImageQuery(run[k].config[1].dataset_ids) # <<>>
                       /\ run'[k] = [frame EXCEPT !.pc = "progress_total",
                              !.image_records = ImageQuery(run[k].config[1].dataset_ids)]
                    \/ run'[k] = [frame EXCEPT !.pc = "except",
                              !.exc = IF catalog THEN NoTransformationsError
                                      ELSE NoImagesError]
                 /\ UNCHANGED <<release_progress, releases, transformations, dirty, fs>>]_vars

\* a run in the handler with the no-transformations failure although the
\* catalog has eligible records of its version: the query had failed
C34_Witness ==
    \E k \in Runs :
        /\ run[k].pc = "except"
        /\ run[k].exc = NoTransformationsError
        /\ PendingQuery(transformations, run[k].release_version) # <<>>

\* the same for the image query
C34_WitnessImages ==
    \E k \in Runs :
        /\ run[k].pc = "except"
        /\ run[k].exc = NoImagesError
        /\ ImageQuery(run[k].config[1].dataset_ids) # <<>>

\* C35: while a run goes on, the progress entry of its release has
\* 0 <= processed <= total, generated >= 0 and a percentage from 0 to 100.
C35_ProgressBounds ==
    \A k \in Runs :
        (Active(k) /\ Created(k) /\ run[k].release_id \in DOMAIN release_progress)
        => /\ 0 <= ProgressOf(k).processed_images
           /\ ProgressOf(k).processed_images <= ProgressOf(k).total_images
           /\ ProgressOf(k).generated_images >= 0
           /\ PctLeq(Pct0, ProgressOf(k).progress_percentage)
           /\ PctLeq(ProgressOf(k).progress_percentage, Pct100)

\* a run that skipped an image and generated variants, about to return
C35_Witness ==
    \E k \in Runs :
        /\ run[k].pc = "return"
        /\ 0 < ProgressOf(k).processed_images
        /\ ProgressOf(k).processed_images < ProgressOf(k).total_images
        /\ ProgressOf(k).generated_images > 0

====
